---------------------------- MODULE Spec2Model ----------------------------
(***************************************************************************)
(* TeleGuard (src/src/bot.py): the offline-first capture-and-sync          *)
(* pipeline.  Two tasks share the capture directory and nothing else:      *)
(*   - the capture thread (WebcamCapture.startup_capture), started once by *)
(*     main() as a daemon thread;                                          *)
(*   - the asyncio event loop of the Telegram application: first the       *)
(*     post_init hook send_startup_alert, then one update handler at a     *)
(*     time (cmd_start, button_callback -> handle_capture/handle_pending). *)
(* The environment is the wall clock (whole seconds, as the file names use *)
(* them), the connectivity, the answers of the Telegram API, the camera,   *)
(* the location services, and the process being killed and started again   *)
(* (control_panel.py stops the bot with terminate()/taskkill /F).          *)
(***************************************************************************)
EXTENDS Integers, Sequences, FiniteSets, TLC

(***************************************************************************)
(* Program constants.                                                      *)
(***************************************************************************)
CAPTURE_DELAY == 2
MaxWaitAttempts == 30
\* Config.ADMIN_ID as read from config.txt; main() exits when it is 0.
ConfigAdmin == 1

(***************************************************************************)
(* Bounds of the model.                                                    *)
(***************************************************************************)
\* Config.STARTUP_CAPTURES, the configured number of attempts of a burst (3 as
\* shipped)
STARTUP_CAPTURES == 2
\* the wall clock runs from 0 to MaxClock seconds
MaxClock == 4
\* how many times the process is killed and started again
MaxCrashes == 1
\* how many updates the dispatcher hands to handlers in one process run
MaxUpdates == 1
\* how many calls a caller of the storage and drain functions makes
MaxCalls == 2

None == [none |-> TRUE]
\* chats that can send commands: the configured admin and a stranger
Chats == {ConfigAdmin, ConfigAdmin + 1}

(***************************************************************************)
(* File names of the capture directory.  capture() and startup_capture()   *)
(* name a file after datetime.now() to the second.                         *)
(***************************************************************************)
CaptureName(t) == [kind |-> "jpg", ts |-> t]

LocationName(t) == [kind |-> "json", ts |-> t]

\* A file being written holds a prefix of its bytes until the writer is done
\* (cv2.imwrite and open(..,'w') + json.dump write in place).  acks and excused
\* are history: how often the sink accepted the complete artifact, and whether
\* the artifact met a documented resend case.
Partial(payload) == [st |-> "partial", payload |-> payload, acks |-> 0, excused |-> FALSE]

Complete(f) == [f EXCEPT !.st = "complete"]

\* the frame a capture() call got from the camera, named after its caller
Frame(by) == [by |-> by]

(***************************************************************************)
(* NetworkManager.get_location as a function of what the three sources     *)
(* answered.  win: get_windows_location() (None or a validated fix), wifi: *)
(* get_wifi_location() (None or whatever the service returned), ip: the    *)
(* ip-api.com reply (None for an exception or status != success).          *)
(***************************************************************************)
Fix(lat, lon, source) == [lat |-> lat, lon |-> lon, source |-> source]

\* a get_location that prefers the coordinates of the IP lookup
get_location_IpFirst(win, wifi, ip) ==
    IF ip # None THEN [lat |-> ip.lat, lon |-> ip.lon, source |-> "IP", meta |-> TRUE]
    ELSE IF win # None THEN [lat |-> win.lat, lon |-> win.lon, source |-> win.source, meta |-> FALSE]
    ELSE IF wifi # None THEN [lat |-> wifi.lat, lon |-> wifi.lon, source |-> wifi.source, meta |-> FALSE]
    ELSE None

get_location(win, wifi, ip) ==
    LET precise_loc == IF win # None THEN win ELSE wifi
    IN  IF ip # None
        THEN IF precise_loc # None
             THEN [lat |-> precise_loc.lat, lon |-> precise_loc.lon,
                   source |-> precise_loc.source, meta |-> TRUE]
             ELSE [lat |-> ip.lat, lon |-> ip.lon, source |-> "IP", meta |-> TRUE]
        ELSE IF precise_loc # None
             THEN [lat |-> precise_loc.lat, lon |-> precise_loc.lon,
                   source |-> precise_loc.source, meta |-> FALSE]
             ELSE None

\* What the sources can answer in this model.  get_windows_location only
\* returns a fix with lat # 0 and lon # 0; the other two return what they got.
WinOutcomes == {None, Fix(50, 50, "GPS")}

WifiOutcomes == {None, Fix(0, 50, "WiFi")}

IpOutcomes == {None, [lat |-> 0, lon |-> 0]}

LocationResults ==
    {get_location(w, f, i) : w \in WinOutcomes, f \in WifiOutcomes, i \in IpOutcomes}

\* a drain that never sends the coordinates message
HasCoords_Never(info) == FALSE

\* Python truthiness of info.get('lat') and info.get('lon')
HasCoords(info) == info.lat # 0 /\ info.lon # 0

(***************************************************************************)
(* The three location sources, as functions of what the outside answered.  *)
(* A reply is [kind, lat, lon]; lat and lon count when kind = "coords".    *)
(***************************************************************************)
Reply(kind, lat, lon) == [kind |-> kind, lat |-> lat, lon |-> lon]

\* latitudes and longitudes the outside reports: in range, zero, out of range
Lats == {-91, 0, 50}

Lons == {0, 50, 181}

CoordReplies == {Reply("coords", a, o) : a \in Lats, o \in Lons}

\* powershell: the run fails or times out, prints nothing, prints something that
\* float() rejects, or prints "lat,lon,accuracy"
WinReplies == {Reply("raise", 0, 0), Reply("empty", 0, 0), Reply("malformed", 0, 0),
               Reply("stall", 0, 0)}
                  \cup CoordReplies

\* netsh and the Mozilla service: an exception, no usable answer (no output,
\* fewer than two networks, a status other than 200, no "location"), or a
\* location
WifiReplies == {Reply("raise", 0, 0), Reply("none", 0, 0),
                Reply("stall_scan", 0, 0), Reply("stall", 0, 0)} \cup CoordReplies

\* ip-api.com: an exception (no network, timeout, a reply that is not JSON), a
\* status other than "success", success without lat and lon, success with them
IpReplies == {Reply("raise", 0, 0), Reply("fail", 0, 0), Reply("nocoords", 0, 0),
              Reply("stall", 0, 0)}
                 \cup CoordReplies

abs(x) == IF x < 0 THEN -x ELSE x

\* handlers that catch OSError only
Exception_OSError == {"FileNotFoundError", "PermissionError"}

\* the exceptions `except Exception` catches
Exception ==
    {"FileNotFoundError", "PermissionError", "TimeoutExpired", "ValueError",
     "RequestException"}

\* try: <body> / except Exception: log / return None -- the body raised exc
\* ("none": it ran to its end and gave value; "hang": it never came back)
Try(exc, value) ==
    IF exc = "none" THEN [raised |-> FALSE, hung |-> FALSE, value |-> value]
    ELSE IF exc = "hang" THEN [raised |-> FALSE, hung |-> TRUE, value |-> None]
    ELSE IF exc \in Exception THEN [raised |-> FALSE, hung |-> FALSE, value |-> None]
    ELSE [raised |-> TRUE, hung |-> FALSE, value |-> None]

\* the timeout= arguments of the calls get_location makes, in seconds
PowershellTimeout == 40
NetshTimeout == 10
GeolocateTimeout == 10
LocationApiTimeout == 10

\* calls made without a timeout
Stalled_Forever(timeout, exc) == "hang"

\* a call with timeout=t that gets no answer: it raises when t has passed
\* (subprocess.TimeoutExpired, requests Timeout); without a timeout it would
\* never return
Stalled(timeout, exc) == IF timeout > 0 THEN exc ELSE "hang"

\* get_windows_location(): the test of line 316 on the parsed output
get_windows_location(reply) ==
    Try(IF reply.kind = "raise" THEN "FileNotFoundError"
        ELSE IF reply.kind = "stall" THEN Stalled(PowershellTimeout, "TimeoutExpired")
        ELSE IF reply.kind = "malformed" THEN "ValueError"
        ELSE "none",
        IF /\ reply.kind = "coords"
           /\ reply.lat # 0 /\ reply.lon # 0
           /\ abs(reply.lat) <= 90 /\ abs(reply.lon) <= 180
        THEN Fix(reply.lat, reply.lon, "GPS")
        ELSE None)

\* get_wifi_location(): whatever data["location"] holds is returned
get_wifi_location(reply) ==
    Try(IF reply.kind = "raise" THEN "RequestException"
        ELSE IF reply.kind = "stall_scan" THEN Stalled(NetshTimeout, "TimeoutExpired")
        ELSE IF reply.kind = "stall" THEN Stalled(GeolocateTimeout, "RequestException")
        ELSE "none",
        IF reply.kind = "coords"
        THEN Fix(reply.lat, reply.lon, "WiFi")
        ELSE None)

\* the try block of get_location(): requests.get, response.json(), the status
\* test, data.get("lat", 0) and data.get("lon", 0)
ip_lookup(reply) ==
    Try(IF reply.kind = "raise" THEN "RequestException"
        ELSE IF reply.kind = "stall" THEN Stalled(LocationApiTimeout, "RequestException")
        ELSE "none",
        IF reply.kind = "coords" THEN [lat |-> reply.lat, lon |-> reply.lon]
        ELSE IF reply.kind = "nocoords" THEN [lat |-> 0, lon |-> 0]
        ELSE None)

\* no get_location() call in progress
NoResolve ==
    [pc |-> "off", win |-> None, wifi |-> None, ip |-> None,
     win_loc |-> None, wifi_loc |-> None, ip_data |-> None,
     trace |-> << >>, result |-> None, raised |-> FALSE]

VARIABLES
    dir,        \* Config.CAPTURE_DIR: file name -> [st, payload, acks, excused]
    admin_id,   \* storage.admin_id (0: unset)
    online,     \* whether the network is reachable right now
    clock,      \* datetime.now(), in seconds
    crashes,    \* how often the process was killed and restarted
    \* ---- capture thread (startup_capture)
    bpc,        \* its position
    bi,         \* the loop variable i
    wake,       \* when time.sleep(CAPTURE_DELAY) returns
    bfile,      \* the file it is writing, as [name, payload]
    captured,   \* its counter of successful captures
    \* ---- event loop
    epc,        \* position of the running coroutine ("idle": polling)
    attempts,   \* send_startup_alert: attempts
    location,   \* send_startup_alert: location
    updates,    \* updates handled in this run
    photo,      \* handle_capture: photo, as [name, payload]
    total,      \* handle_pending: total
    \* ---- send_pending_files
    dpc,        \* position inside send_pending_files ("off": not running)
    dret,       \* who called it
    files,      \* the part of the list `files` the loop has not reached yet
    filepath,   \* the loop variable
    info,       \* the parsed location record
    \* ---- history (not program state)
    everOnline, \* the network was reachable at some moment of this run
    sendOk,     \* some RemoteSink call of this run succeeded
    napp,       \* appends completed in this run
    pass,       \* what the current drain pass did so far
    calls,      \* the RemoteSink calls made for filepath in this pass
    lost,       \* artifacts that left the store before the sink had them
    last,       \* the last delete_file call made from outside the program
    resolver,   \* a get_location() call made from outside the program
    probe       \* the last check_internet() call of the startup wait, when traced

vars == <<dir, admin_id, online, clock, crashes, bpc, bi, wake, bfile, captured,
          epc, attempts, location, updates, photo, total,
          dpc, dret, files, filepath, info,
          everOnline, sendOk, napp, pass, calls, lost, last, resolver, probe>>

burstVars == <<bpc, bi, wake, bfile, captured>>
loopVars == <<epc, attempts, location, updates, photo, total>>
drainVars == <<dpc, dret, files, filepath, info>>
histVars == <<sendOk, napp, pass, calls, lost, last>>

(***************************************************************************)
(* The capture directory.                                                  *)
(***************************************************************************)
\* the file `name` created, or truncated, and opened for writing `payload`
Put(d, name, payload) ==
    [n \in DOMAIN d \cup {name} |-> IF n = name THEN Partial(payload) ELSE d[n]]

\* the directory entry `name` unlinked
Unlink(d, name) == [n \in DOMAIN d \ {name} |-> d[n]]

\* the artifact a file holds
Artifact(d, name) == [name |-> name, payload |-> d[name].payload]

\* a writer that finishes writing `name`: the file is complete, unless it was
\* unlinked or another writer took the name over in the meantime
Finish(d, name, payload) ==
    IF name \in DOMAIN d /\ d[name].payload = payload
    THEN [d EXCEPT ![name] = Complete(@)]
    ELSE d

\* history: the artifact that ceases to exist when `by` unlinks or truncates
\* the file `name` before the sink had its complete bytes (a writer that is
\* still writing goes on writing to the unlinked file)
Loses(d, name, by) ==
    IF name \in DOMAIN d /\ d[name].acks = 0
    THEN {[art |-> Artifact(d, name), by |-> by]}
    ELSE {}

(***************************************************************************)
(* StorageManager.                                                         *)
(***************************************************************************)
\* a drain that goes on with the list an earlier drain left
get_pending_files_Cached(d) == files

\* get_pending_files(): glob("*.jpg") + glob("location_*.json").  The list is
\* kept as its two parts; glob returns each part in the file system's order.
get_pending_files(d) ==
    [photos    |-> {n \in DOMAIN d : n.kind = "jpg"},
     locations |-> {n \in DOMAIN d : n.kind = "json"}]

\* the files of a list, and the files that can be its first element
ListSet(l) == l.photos \cup l.locations

ListHeads(l) == IF l.photos # {} THEN l.photos ELSE l.locations

ListRest(l, f) == [photos |-> l.photos \ {f}, locations |-> l.locations \ {f}]

EmptyList == [photos |-> {}, locations |-> {}]

\* os.remove(filepath): the entry is unlinked, or the call raises because the
\* file does not exist or the system refuses (a file in use, on Windows)
os_remove(d, f, refused) ==
    IF f \notin DOMAIN d THEN [dir |-> d, exc |-> "FileNotFoundError"]
    ELSE IF refused THEN [dir |-> d, exc |-> "PermissionError"]
    ELSE [dir |-> Unlink(d, f), exc |-> "none"]

\* a delete_file without the try/except around os.remove
delete_file_unguarded(d, f, refused) ==
    IF f \notin DOMAIN d THEN [dir |-> d, raised |-> TRUE, removed |-> FALSE]
    ELSE IF refused THEN [dir |-> d, raised |-> TRUE, removed |-> FALSE]
    ELSE [dir |-> [n \in DOMAIN d \ {f} |-> d[n]], raised |-> FALSE, removed |-> TRUE]

\* delete_file(filepath): os.remove inside try/except Exception (a warning)
delete_file(d, f, refused) ==
    LET r == os_remove(d, f, refused)
    IN  [dir |-> r.dir,
         raised |-> r.exc # "none" /\ r.exc \notin Exception,
         removed |-> r.exc = "none"]

\* history of a drain pass: the state it started in, whether it made a
\* RemoteSink call, the files it removed and the artifacts for which a call
\* failed
NoPass == [online |-> FALSE, admin |-> 0, snap |-> {}, called |-> FALSE,
           removed |-> {}, failed |-> {}]

\* no check_internet() call traced
NoProbe == [reply |-> "none", value |-> FALSE, raised |-> FALSE, count |-> 0]

Init ==
    /\ dir = << >>
    /\ admin_id = ConfigAdmin
    /\ online \in BOOLEAN
    /\ clock = 0
    /\ crashes = 0
    /\ bpc = "sleep" /\ bi = 0 /\ wake = 0 /\ bfile = None /\ captured = 0
    /\ epc = "alert" /\ attempts = 0 /\ location = None /\ updates = 0
    /\ photo = None /\ total = 0
    /\ dpc = "off" /\ dret = "none" /\ files = EmptyList
    /\ filepath = None /\ info = None
    /\ everOnline = online /\ sendOk = FALSE /\ napp = 0 /\ pass = NoPass
    /\ calls = << >> /\ lost = {} /\ last = None /\ resolver = NoResolve /\ probe = NoProbe

(***************************************************************************)
(* The environment.                                                        *)
(***************************************************************************)
Tick ==
    /\ clock < MaxClock
    /\ clock' = clock + 1
    /\ UNCHANGED <<dir, admin_id, online, crashes, burstVars, loopVars, drainVars,
                   everOnline, histVars, resolver, probe>>

Connectivity ==
    /\ online' = ~online
    /\ everOnline' = (everOnline \/ online')
    /\ UNCHANGED <<dir, admin_id, clock, crashes, burstVars, loopVars, drainVars,
                   histVars, resolver, probe>>

\* The Telegram API as the program sees it: a call returns or raises.  It
\* cannot return while the network is unreachable.
SinkAnswers == IF online THEN BOOLEAN ELSE {FALSE}

\* What requests.get(Config.INTERNET_CHECK_URL, timeout=...) does: it returns
\* a response, whatever its status, or raises: Timeout, ConnectionError (name
\* resolution failed, connection refused), another exception, or the
\* KeyboardInterrupt of a Ctrl+C that arrives during the request.
ProbeReplies == {"response", "Timeout", "ConnectionError", "ValueError", "KeyboardInterrupt"}

\* a handler `except Exception:`, which lets a KeyboardInterrupt through
Catches_Exception(exc) == exc # "KeyboardInterrupt"

\* the bare `except:` of check_internet
Catches(exc) == TRUE

\* NetworkManager.check_internet() for one reply of the probe
probe_internet(reply) ==
    IF reply = "response" THEN [raised |-> FALSE, value |-> TRUE]
    ELSE IF Catches(reply) THEN [raised |-> FALSE, value |-> FALSE]
    ELSE [raised |-> TRUE, value |-> FALSE]

\* a probe that always answers online
check_internet_Always == TRUE

\* NetworkManager.check_internet() as the program meets it: the request
\* completes when the network is reachable and fails when it is not
check_internet == probe_internet(IF online THEN "response" ELSE "ConnectionError").value

(***************************************************************************)
(* WebcamCapture.capture(), as far as opening capture_<now>.jpg for        *)
(* writing, and the return of cv2.imwrite.                                 *)
(***************************************************************************)
capture(by) ==
    /\ dir' = Put(dir, CaptureName(clock), Frame(by))
    /\ lost' = lost \cup Loses(dir, CaptureName(clock), by)

(***************************************************************************)
(* WebcamCapture.startup_capture, in the capture thread.                   *)
(***************************************************************************)
\* for i in range(Config.STARTUP_CAPTURES)
InRange(i) == i < STARTUP_CAPTURES

\* a thread that runs the loop of startup_capture again when it gets to the end
Returned_Restart == "sleep"

\* startup_capture returns: the capture thread, whose target it is, ends
Returned == "done"

\* for i in range(Config.STARTUP_CAPTURES): time.sleep(Config.CAPTURE_DELAY)
BurstSleep ==
    /\ bpc = "sleep"
    /\ IF InRange(bi)
       THEN /\ wake' = clock + CAPTURE_DELAY
            /\ bpc' = "capture"
       ELSE /\ bpc' = "location"
            /\ UNCHANGED wake
    /\ UNCHANGED <<dir, admin_id, online, clock, crashes, bi, bfile, captured,
                   loopVars, drainVars, everOnline, histVars, resolver, probe>>

\* photo = WebcamCapture.capture(): the camera gives a frame or not
BurstCapture ==
    /\ bpc = "capture"
    /\ clock >= wake
    /\ \E ret \in BOOLEAN :
         IF ret
         THEN /\ capture("burst")
              /\ bfile' = [name |-> CaptureName(clock), payload |-> Frame("burst")]
              /\ bpc' = "imwrite"
              /\ UNCHANGED bi
         ELSE /\ bi' = bi + 1
              /\ bpc' = "sleep"
              /\ UNCHANGED <<dir, bfile, lost>>
    /\ UNCHANGED <<admin_id, online, clock, crashes, wake, captured, loopVars, drainVars,
                   everOnline, sendOk, napp, pass, calls, last, resolver, probe>>

\* cv2.imwrite returns; capture() returns save_path; captured += 1
BurstWritten ==
    /\ bpc = "imwrite"
    /\ dir' = Finish(dir, bfile.name, bfile.payload)
    /\ napp' = napp + 1
    /\ captured' = captured + 1
    /\ bi' = bi + 1
    /\ bfile' = None
    /\ bpc' = "sleep"
    /\ UNCHANGED <<admin_id, online, clock, crashes, wake, loopVars, drainVars,
                   everOnline, sendOk, pass, calls, lost, last, resolver, probe>>

\* a burst that writes a location file whatever get_location returned
HasLocation_Always(loc) == TRUE

\* if location:
HasLocation(loc) == loc # None

\* location = network.get_location(); if location: open(loc_file, 'w')
BurstLocation ==
    /\ bpc = "location"
    /\ \E loc \in LocationResults :
         IF HasLocation(loc)
         THEN /\ dir' = Put(dir, LocationName(clock), loc)
              /\ lost' = lost \cup Loses(dir, LocationName(clock), "burst")
              /\ bfile' = [name |-> LocationName(clock), payload |-> loc]
              /\ bpc' = "dump"
         ELSE /\ bpc' = Returned
              /\ UNCHANGED <<dir, bfile, lost>>
    /\ UNCHANGED <<admin_id, online, clock, crashes, bi, wake, captured,
                   loopVars, drainVars, everOnline, sendOk, napp, pass, calls, last, resolver, probe>>

\* json.dump(location, f) and the file closed
BurstDumped ==
    /\ bpc = "dump"
    /\ dir' = Finish(dir, bfile.name, bfile.payload)
    /\ napp' = napp + 1
    /\ bfile' = None
    /\ bpc' = Returned
    /\ UNCHANGED <<admin_id, online, clock, crashes, bi, wake, captured,
                   loopVars, drainVars, everOnline, sendOk, pass, calls, lost, last, resolver, probe>>

(***************************************************************************)
(* send_pending_files(app).  A caller sets epc = "drain", dpc = "start"     *)
(* and dret; DrainReturn hands control back.                               *)
(***************************************************************************)
Call(ret) ==
    /\ epc' = "drain"
    /\ dpc' = "start"
    /\ dret' = ret

Continuation(ret) == IF ret = "handle_pending" THEN "pending_report" ELSE "idle"

\* a drain without the admin_id test
Unset_Never(a) == FALSE

\* `not storage.admin_id`
Unset(a) == a = 0

\* a drain that goes on to the next statement whatever the sink answered
AfterCall_Always(ok, next) == next

\* a drain that removes a file when a call for it failed
AfterCall_Inverted(ok, next) == IF ok THEN next ELSE "delete"

\* a drain that repeats a call that failed
AfterCall_Retry(ok, next) == IF ok THEN next ELSE dpc

\* try: await <call>; <next> / except Exception: logger.error(...), and the
\* for loop goes on with the next file
AfterCall(ok, next) == IF ok THEN next ELSE "loop"

\* history: the sink accepted the first call made for file f
Ack(d, f) ==
    IF d[f].st = "complete"
    THEN [d EXCEPT ![f].acks = IF @ < 2 THEN @ + 1 ELSE @]
    ELSE d

\* history: one more RemoteSink call in this pass
Called(kind, ok) ==
    /\ calls' = Append(calls, <<kind, ok>>)
    /\ pass' = [pass EXCEPT !.called = TRUE,
                            !.failed = IF ok THEN @ ELSE @ \cup {Artifact(dir, filepath)}]
    /\ sendOk' = (sendOk \/ ok)

\* if not storage.admin_id: return / files = get_pending_files();
\* if not files: return
DrainStart ==
    /\ epc = "drain" /\ dpc = "start"
    /\ IF Unset(admin_id)
       THEN dpc' = "return" /\ files' = EmptyList
       ELSE /\ files' = get_pending_files(dir)
            /\ dpc' = IF ListSet(files') = {} THEN "return" ELSE "loop"
    /\ pass' = [online |-> online, admin |-> admin_id, snap |-> ListSet(files'),
                called |-> FALSE, removed |-> {}, failed |-> {}]
    /\ UNCHANGED <<dir, admin_id, online, clock, crashes, burstVars, loopVars,
                   dret, filepath, info, everOnline, sendOk, napp, calls, lost, last, resolver, probe>>

\* a json.load that returns the record whatever the file holds
Parses_Always(f) == TRUE

\* json.load(f) returns: the file holds the whole text json.dump wrote
Parses(f) == f.st = "complete"

\* for filepath in files: ... open(filepath) (and json.load for a location
\* record); an exception is logged and the loop goes on
DrainLoop ==
    /\ epc = "drain" /\ dpc = "loop"
    /\ calls' = << >>
    /\ IF ListSet(files) = {}
       THEN /\ dpc' = "return"
            /\ filepath' = None
            /\ info' = None
            /\ UNCHANGED files
       ELSE \E f \in ListHeads(files) :
              /\ files' = ListRest(files, f)
              /\ filepath' = f
              /\ IF f \notin DOMAIN dir
                 THEN dpc' = "loop" /\ info' = None
                 ELSE IF f.kind = "jpg"
                 THEN dpc' = "send_photo" /\ info' = None
                 ELSE IF Parses(dir[f])
                 THEN dpc' = "send_message" /\ info' = dir[f].payload
                 ELSE dpc' = "loop" /\ info' = None
    /\ UNCHANGED <<dir, admin_id, online, clock, crashes, burstVars, loopVars,
                   dret, everOnline, sendOk, napp, pass, lost, last, resolver, probe>>

\* the end of send_pending_files
DrainReturn ==
    /\ epc = "drain" /\ dpc = "return"
    /\ dpc' = "off"
    /\ epc' = Continuation(dret)
    /\ dret' = "none"
    /\ pass' = NoPass
    /\ UNCHANGED <<dir, admin_id, online, clock, crashes, burstVars, attempts,
                   location, updates, photo, total, files, filepath, info,
                   everOnline, sendOk, napp, calls, lost, last, resolver, probe>>

\* await app.bot.send_photo(chat_id=storage.admin_id, photo=f, ...)
DrainSendPhoto ==
    /\ epc = "drain" /\ dpc = "send_photo"
    /\ \E ok \in SinkAnswers :
         /\ Called("send_photo", ok)
         /\ dir' = IF ok THEN Ack(dir, filepath) ELSE dir
         /\ dpc' = AfterCall(ok, "delete")
    /\ UNCHANGED <<admin_id, online, clock, crashes, burstVars, loopVars,
                   dret, files, filepath, info, everOnline, napp, lost, last, resolver, probe>>

\* await app.bot.send_message(chat_id=storage.admin_id, text=text, ...)
DrainSendMessage ==
    /\ epc = "drain" /\ dpc = "send_message"
    /\ \E ok \in SinkAnswers :
         /\ Called("send_message", ok)
         /\ dir' = IF ok THEN Ack(dir, filepath) ELSE dir
         /\ dpc' = AfterCall(ok, IF HasCoords(info) THEN "send_location" ELSE "delete")
    /\ UNCHANGED <<admin_id, online, clock, crashes, burstVars, loopVars,
                   dret, files, filepath, info, everOnline, napp, lost, last, resolver, probe>>

\* if info.get('lat') and info.get('lon'): await app.bot.send_location(...)
DrainSendLocation ==
    /\ epc = "drain" /\ dpc = "send_location"
    /\ \E ok \in SinkAnswers :
         /\ Called("send_location", ok)
         /\ dir' = IF ok THEN dir ELSE [dir EXCEPT ![filepath].excused = TRUE]
         /\ dpc' = AfterCall(ok, "delete")
    /\ UNCHANGED <<admin_id, online, clock, crashes, burstVars, loopVars,
                   dret, files, filepath, info, everOnline, napp, lost, last, resolver, probe>>

\* storage.delete_file(filepath)
DrainDelete ==
    /\ epc = "drain" /\ dpc = "delete"
    /\ \E refused \in BOOLEAN :
         LET r == delete_file(dir, filepath, refused)
         IN  /\ dir' = r.dir
             /\ lost' = IF r.removed THEN lost \cup Loses(dir, filepath, "drain") ELSE lost
             /\ pass' = IF r.removed THEN [pass EXCEPT !.removed = @ \cup {filepath}]
                        ELSE pass
    /\ dpc' = "loop"
    /\ UNCHANGED <<admin_id, online, clock, crashes, burstVars, loopVars,
                   dret, files, filepath, info, everOnline, sendOk, napp, calls, last, resolver, probe>>

(***************************************************************************)
(* main.send_startup_alert, the post_init hook of the application.         *)
(***************************************************************************)
\* if not storage.admin_id: return / attempts = 0 /
\* while not network.check_internet() and attempts < 30: attempts += 1
StartupWait ==
    /\ epc = "alert"
    /\ IF Unset(admin_id)
       THEN epc' = "idle" /\ UNCHANGED attempts
       ELSE IF ~check_internet /\ attempts < MaxWaitAttempts
       THEN attempts' = attempts + 1 /\ UNCHANGED epc
       ELSE epc' = "gate" /\ UNCHANGED attempts
    /\ UNCHANGED <<dir, admin_id, online, clock, crashes, burstVars, location, updates,
                   photo, total, drainVars, everOnline, histVars, resolver, probe>>

\* if not network.check_internet(): return / location = network.get_location()
StartupGate ==
    /\ epc = "gate"
    /\ attempts' = 0
    /\ IF ~check_internet
       THEN epc' = "idle" /\ UNCHANGED location
       ELSE /\ epc' = "alert_message"
            /\ location' \in LocationResults
    /\ UNCHANGED <<dir, admin_id, online, clock, crashes, burstVars, updates,
                   photo, total, drainVars, everOnline, histVars, resolver, probe>>

\* a hook that goes on whatever the sink answered
Raises_Never(ok) == FALSE

\* an awaited call of the hook's try block raises when the sink refuses it,
\* and `except Exception` ends the hook
Raises(ok) == ~ok

\* await application.bot.send_message(chat_id=storage.admin_id, text=alert)
StartupAlert ==
    /\ epc = "alert_message"
    /\ \E ok \in SinkAnswers :
         /\ sendOk' = (sendOk \/ ok)
         /\ IF Raises(ok)
            THEN epc' = "idle" /\ location' = None /\ UNCHANGED <<dpc, dret>>
            ELSE IF location # None /\ HasCoords(location)
            THEN epc' = "alert_location" /\ UNCHANGED <<location, dpc, dret>>
            ELSE Call("send_startup_alert") /\ location' = None
    /\ UNCHANGED <<dir, admin_id, online, clock, crashes, burstVars, attempts, updates,
                   photo, total, files, filepath, info, everOnline,
                   napp, pass, calls, lost, last, resolver, probe>>

\* await application.bot.send_location(...) / await send_pending_files(application)
StartupCoords ==
    /\ epc = "alert_location"
    /\ location' = None
    /\ \E ok \in SinkAnswers :
         /\ sendOk' = (sendOk \/ ok)
         /\ IF Raises(ok)
            THEN epc' = "idle" /\ UNCHANGED <<dpc, dret>>
            ELSE Call("send_startup_alert")
    /\ UNCHANGED <<dir, admin_id, online, clock, crashes, burstVars, attempts, updates,
                   photo, total, files, filepath, info, everOnline,
                   napp, pass, calls, lost, last, resolver, probe>>

(***************************************************************************)
(* The update handlers.  The application handles one update at a time, and *)
(* an update can only have been fetched while the network was reachable.   *)
(***************************************************************************)
\* /start from chat c: storage.set_admin(update.effective_chat.id)
cmd_start ==
    /\ epc = "idle" /\ everOnline /\ updates < MaxUpdates
    /\ admin_id' \in Chats
    /\ updates' = updates + 1
    /\ epc' = "start_reply"
    /\ UNCHANGED <<dir, online, clock, crashes, burstVars, attempts, location,
                   photo, total, drainVars, everOnline, histVars, resolver, probe>>

\* msg = await update.message.reply_text(...); ...; await msg.edit_text(text, ...)
\* / await send_pending_files(context.application)
StartReply ==
    /\ epc = "start_reply"
    /\ \E ok \in SinkAnswers :
         IF ok THEN Call("cmd_start") ELSE epc' = "idle" /\ UNCHANGED <<dpc, dret>>
    /\ UNCHANGED <<dir, admin_id, online, clock, crashes, burstVars, attempts, location,
                   updates, photo, total, files, filepath, info, everOnline, histVars, resolver, probe>>

\* a button pressed: button_callback; await query.answer() raises or returns,
\* then action = query.data names the handler
button_callback ==
    /\ epc = "idle" /\ updates < MaxUpdates
    /\ TRUE \in SinkAnswers
    /\ updates' = updates + 1
    /\ epc' \in {"capture", "pending"}
    /\ UNCHANGED <<dir, admin_id, online, clock, crashes, burstVars, attempts, location,
                   photo, total, drainVars, everOnline, histVars, resolver, probe>>

\* handle_capture: photo = webcam.capture()
HandleCapture ==
    /\ epc = "capture"
    /\ \E ret \in BOOLEAN :
         IF ret
         THEN /\ capture("button")
              /\ photo' = [name |-> CaptureName(clock), payload |-> Frame("button")]
              /\ epc' = "imwrite"
         ELSE /\ epc' = "idle"
              /\ UNCHANGED <<dir, photo, lost>>
    /\ UNCHANGED <<admin_id, online, clock, crashes, burstVars, attempts, location,
                   updates, total, drainVars, everOnline, sendOk, napp, pass, calls, last, resolver, probe>>

\* cv2.imwrite returns in capture(), called by handle_capture
HandleWritten ==
    /\ epc = "imwrite"
    /\ dir' = Finish(dir, photo.name, photo.payload)
    /\ napp' = napp + 1
    /\ epc' = "reply_photo"
    /\ UNCHANGED <<admin_id, online, clock, crashes, burstVars, attempts, location,
                   updates, photo, total, drainVars, everOnline,
                   sendOk, pass, calls, lost, last, resolver, probe>>

\* await query.edit_message_text("Uploading...") /
\* with open(photo, 'rb') as f: await query.message.reply_photo(photo=f, ...)
HandleReplyPhoto ==
    /\ epc = "reply_photo"
    /\ IF photo.name \notin DOMAIN dir
       THEN epc' = "idle" /\ photo' = None /\ UNCHANGED <<dir, sendOk>>
       ELSE \E ok \in SinkAnswers :
              /\ sendOk' = (sendOk \/ ok)
              /\ dir' = IF ok THEN Ack(dir, photo.name) ELSE dir
              /\ epc' = IF ok THEN "capture_delete" ELSE "idle"
              /\ photo' = IF ok THEN photo ELSE None
    /\ UNCHANGED <<admin_id, online, clock, crashes, burstVars, attempts, location,
                   updates, total, drainVars, everOnline, napp, pass, calls, lost, last, resolver, probe>>

\* storage.delete_file(photo)
HandleDelete ==
    /\ epc = "capture_delete"
    /\ \E refused \in BOOLEAN :
         LET r == delete_file(dir, photo.name, refused)
         IN  /\ dir' = r.dir
             /\ lost' = IF r.removed THEN lost \cup Loses(dir, photo.name, "button")
                        ELSE lost
    /\ epc' = "idle"
    /\ photo' = None
    /\ UNCHANGED <<admin_id, online, clock, crashes, burstVars, attempts, location,
                   updates, total, drainVars, everOnline, sendOk, napp, pass, calls, last, resolver, probe>>

\* handle_pending: files = storage.get_pending_files(); if not files: return;
\* total = len(files); ...; await send_pending_files(context.application)
HandlePending ==
    /\ epc = "pending"
    /\ IF ListSet(get_pending_files(dir)) = {}
       THEN epc' = "idle" /\ UNCHANGED <<total, dpc, dret>>
       ELSE /\ total' = Cardinality(ListSet(get_pending_files(dir)))
            /\ Call("handle_pending")
    /\ UNCHANGED <<dir, admin_id, online, clock, crashes, burstVars, attempts, location,
                   updates, photo, files, filepath, info, everOnline, histVars, resolver, probe>>

\* await query.edit_message_text(f"All {total} files sent!")
HandleReport ==
    /\ epc = "pending_report"
    /\ epc' = "idle"
    /\ total' = 0
    /\ UNCHANGED <<dir, admin_id, online, clock, crashes, burstVars, attempts, location,
                   updates, photo, drainVars, everOnline, histVars, resolver, probe>>

(***************************************************************************)
(* The process is killed at any point and started again: main() runs from  *)
(* the top, the capture directory is what the killed process left.         *)
(***************************************************************************)
\* history: a kill between the sink's answer and the removal of `f`
Excuse(d, f) == IF f \in DOMAIN d THEN [d EXCEPT ![f].excused = TRUE] ELSE d

Crash ==
    /\ crashes < MaxCrashes
    /\ crashes' = crashes + 1
    /\ admin_id' = ConfigAdmin
    /\ bpc' = "sleep" /\ bi' = 0 /\ wake' = 0 /\ bfile' = None /\ captured' = 0
    /\ epc' = "alert" /\ attempts' = 0 /\ location' = None /\ updates' = 0
    /\ photo' = None /\ total' = 0
    /\ dpc' = "off" /\ dret' = "none" /\ files' = EmptyList
    /\ filepath' = None /\ info' = None
    /\ everOnline' = online /\ sendOk' = FALSE /\ napp' = 0 /\ pass' = NoPass
    /\ calls' = << >> /\ last' = None
    /\ dir' = IF dpc = "delete" THEN Excuse(dir, filepath)
              ELSE IF epc = "capture_delete" THEN Excuse(dir, photo.name)
              ELSE dir
    /\ UNCHANGED <<online, clock, lost, resolver, probe>>

(***************************************************************************)
(* send_pending_files and StorageManager.delete_file called from outside   *)
(* main(): by a caller that has a StorageManager as __init__ or set_admin   *)
(* left it (admin_id 0 or a chat) and calls the two functions as it likes,  *)
(* while startup_capture runs in its thread.  updates counts the calls.     *)
(***************************************************************************)
InitCalls ==
    /\ dir = << >>
    /\ admin_id \in {0} \cup Chats
    /\ online \in BOOLEAN
    /\ clock = 0
    /\ crashes = 0
    /\ bpc = "sleep" /\ bi = 0 /\ wake = 0 /\ bfile = None /\ captured = 0
    /\ epc = "idle" /\ attempts = 0 /\ location = None /\ updates = 0
    /\ photo = None /\ total = 0
    /\ dpc = "off" /\ dret = "none" /\ files = EmptyList
    /\ filepath = None /\ info = None
    /\ everOnline = online /\ sendOk = FALSE /\ napp = 0 /\ pass = NoPass
    /\ calls = << >> /\ lost = {} /\ last = None /\ resolver = NoResolve /\ probe = NoProbe

\* await send_pending_files(app)
call_send_pending_files ==
    /\ epc = "idle" /\ updates < MaxCalls
    /\ updates' = updates + 1
    /\ Call("caller")
    /\ UNCHANGED <<dir, admin_id, online, clock, crashes, burstVars, attempts, location,
                   photo, total, files, filepath, info, everOnline, histVars, resolver, probe>>

\* the ids a caller removes: the files of the directory, an id that never
\* was in it, and the id of its previous call
RemoveArgs == DOMAIN dir \cup {CaptureName(0)} \cup (IF last = None THEN {} ELSE {last.f})

\* storage.delete_file(f); an exception that leaves delete_file ends the caller
call_delete_file ==
    /\ epc = "idle" /\ updates < MaxCalls
    /\ updates' = updates + 1
    /\ \E f \in RemoveArgs, refused \in BOOLEAN :
         LET r == delete_file(dir, f, refused)
         IN  /\ dir' = r.dir
             /\ epc' = IF r.raised THEN "raised" ELSE "idle"
             /\ lost' = IF r.removed THEN lost \cup Loses(dir, f, "caller") ELSE lost
             /\ last' = [n |-> IF last = None THEN 1 ELSE last.n + 1,
                         f |-> f,
                         absent |-> f \notin DOMAIN dir,
                         second |-> last # None /\ last.f = f]
    /\ UNCHANGED <<admin_id, online, clock, crashes, burstVars, attempts, location,
                   photo, total, drainVars, everOnline, sendOk, napp, pass, calls,
                   resolver, probe>>

(***************************************************************************)
(* NetworkManager.get_location() called from outside main(), statement by  *)
(* statement, for every combination of answers of the three sources.       *)
(* resolver.trace lists the sources asked, in order.                       *)
(***************************************************************************)
programVars == <<dir, admin_id, online, clock, crashes, burstVars, loopVars, drainVars,
                 everOnline, histVars>>

InitResolve ==
    /\ dir = << >>
    /\ admin_id = 0
    /\ online = TRUE
    /\ clock = 0
    /\ crashes = 0
    /\ bpc = "done" /\ bi = 0 /\ wake = 0 /\ bfile = None /\ captured = 0
    /\ epc = "idle" /\ attempts = 0 /\ location = None /\ updates = 0
    /\ photo = None /\ total = 0
    /\ dpc = "off" /\ dret = "none" /\ files = EmptyList
    /\ filepath = None /\ info = None
    /\ everOnline = TRUE /\ sendOk = FALSE /\ napp = 0 /\ pass = NoPass
    /\ calls = << >> /\ lost = {} /\ last = None
    /\ resolver \in {[NoResolve EXCEPT !.pc = "start", !.win = w, !.wifi = f, !.ip = i] :
                        w \in WinReplies, f \in WifiReplies, i \in IpReplies}
    /\ probe = NoProbe

\* the next statement after a source was asked, or the exception leaving
\* get_location
Resolved(r, next) == IF r.hung THEN "hung" ELSE IF r.raised THEN "raised" ELSE next

\* a get_location that asks the Wi-Fi source whatever the sensor gave
NeedsWifi_Always(precise_loc) == TRUE

\* `if not precise_loc:`
NeedsWifi(precise_loc) == precise_loc = None

\* win_loc = NetworkManager.get_windows_location(); if win_loc: precise_loc = win_loc
ResolveWindows ==
    /\ resolver.pc = "start"
    /\ LET r == get_windows_location(resolver.win)
       IN  resolver' = [resolver EXCEPT
                            !.trace = Append(@, "windows"),
                            !.win_loc = r.value,
                            !.raised = r.raised,
                            !.pc = Resolved(r, IF NeedsWifi(r.value) THEN "wifi" ELSE "ip")]
    /\ UNCHANGED <<programVars, probe>>

\* wifi_loc = NetworkManager.get_wifi_location(); if wifi_loc: precise_loc = wifi_loc
ResolveWifi ==
    /\ resolver.pc = "wifi"
    /\ LET r == get_wifi_location(resolver.wifi)
       IN  resolver' = [resolver EXCEPT
                            !.trace = Append(@, "wifi"),
                            !.wifi_loc = r.value,
                            !.raised = r.raised,
                            !.pc = Resolved(r, "ip")]
    /\ UNCHANGED <<programVars, probe>>

\* the try block around requests.get(Config.LOCATION_API), and the returns
ResolveIp ==
    /\ resolver.pc = "ip"
    /\ LET r == ip_lookup(resolver.ip)
       IN  resolver' = [resolver EXCEPT
                            !.trace = Append(@, "ip"),
                            !.ip_data = r.value,
                            !.raised = r.raised,
                            !.result = IF r.raised THEN None
                                       ELSE get_location(resolver.win_loc,
                                                         resolver.wifi_loc, r.value),
                            !.pc = Resolved(r, "done")]
    /\ UNCHANGED <<programVars, probe>>

NextResolve ==
    \/ ResolveWindows
    \/ ResolveWifi
    \/ ResolveIp

SpecResolve == InitResolve /\ [][NextResolve]_vars

(***************************************************************************)
(* The connectivity wait of send_startup_alert, with each check_internet() *)
(* call traced: probe holds the reply the request got and what the call    *)
(* returned.                                                               *)
(***************************************************************************)
InitProbe ==
    /\ dir = << >>
    /\ admin_id = ConfigAdmin
    /\ online = TRUE
    /\ clock = 0
    /\ crashes = 0
    /\ bpc = "done" /\ bi = 0 /\ wake = 0 /\ bfile = None /\ captured = 0
    /\ epc = "alert" /\ attempts = 0 /\ location = None /\ updates = 0
    /\ photo = None /\ total = 0
    /\ dpc = "off" /\ dret = "none" /\ files = EmptyList
    /\ filepath = None /\ info = None
    /\ everOnline = TRUE /\ sendOk = FALSE /\ napp = 0 /\ pass = NoPass
    /\ calls = << >> /\ lost = {} /\ last = None
    /\ resolver = NoResolve /\ probe = NoProbe

\* one check_internet() call that gets `reply`
Probed(reply) ==
    LET r == probe_internet(reply)
    IN  [reply |-> reply, value |-> r.value, raised |-> r.raised, count |-> probe.count + 1]

\* while not network.check_internet() and attempts < 30: time.sleep(2); attempts += 1
ProbeWait ==
    /\ epc = "alert"
    /\ \E reply \in ProbeReplies :
         /\ probe' = Probed(reply)
         /\ IF probe'.raised
            THEN epc' = "raised" /\ UNCHANGED attempts
            ELSE IF ~probe'.value /\ attempts < MaxWaitAttempts
            THEN attempts' = attempts + 1 /\ UNCHANGED epc
            ELSE epc' = "gate" /\ UNCHANGED attempts
    /\ UNCHANGED <<dir, admin_id, online, clock, crashes, burstVars, location, updates,
                   photo, total, drainVars, everOnline, histVars, resolver>>

\* if not network.check_internet(): return
ProbeGate ==
    /\ epc = "gate"
    /\ \E reply \in ProbeReplies :
         /\ probe' = Probed(reply)
         /\ epc' = IF probe'.raised THEN "raised"
                   ELSE IF probe'.value THEN "alert_message" ELSE "idle"
    /\ UNCHANGED <<dir, admin_id, online, clock, crashes, burstVars, attempts, location,
                   updates, photo, total, drainVars, everOnline, histVars, resolver>>

NextProbe == ProbeWait \/ ProbeGate

SpecProbe == InitProbe /\ [][NextProbe]_vars

Environment ==
    \/ Tick
    \/ Connectivity

CaptureThread ==
    \/ BurstSleep
    \/ BurstCapture
    \/ BurstWritten
    \/ BurstLocation
    \/ BurstDumped

StartupHook ==
    \/ StartupWait
    \/ StartupGate
    \/ StartupAlert
    \/ StartupCoords

Handlers ==
    \/ cmd_start
    \/ StartReply
    \/ button_callback
    \/ HandleCapture
    \/ HandleWritten
    \/ HandleReplyPhoto
    \/ HandleDelete
    \/ HandlePending
    \/ HandleReport

send_pending_files ==
    \/ DrainStart
    \/ DrainLoop
    \/ DrainReturn
    \/ DrainSendPhoto
    \/ DrainSendMessage
    \/ DrainSendLocation
    \/ DrainDelete

\* one run of the process
Next == Environment \/ CaptureThread \/ StartupHook \/ Handlers \/ send_pending_files

Spec == Init /\ [][Next]_vars

\* runs of the process that nobody sends commands to, killed and restarted
NextCrash == Environment \/ CaptureThread \/ StartupHook \/ send_pending_files \/ Crash

SpecCrash == Init /\ [][NextCrash]_vars

(***************************************************************************)
(* main() from its first statement: the StorageManager was constructed at  *)
(* import (admin_id None, or what config.json held), no thread is started.  *)
(***************************************************************************)
InitMain ==
    /\ dir = << >>
    /\ admin_id \in {0, ConfigAdmin}
    /\ online \in BOOLEAN
    /\ clock = 0
    /\ crashes = 0
    /\ bpc = "off" /\ bi = 0 /\ wake = 0 /\ bfile = None /\ captured = 0
    /\ epc = "main" /\ attempts = 0 /\ location = None /\ updates = 0
    /\ photo = None /\ total = 0
    /\ dpc = "off" /\ dret = "none" /\ files = EmptyList
    /\ filepath = None /\ info = None
    /\ everOnline = online /\ sendOk = FALSE /\ napp = 0 /\ pass = NoPass
    /\ calls = << >> /\ lost = {} /\ last = None
    /\ resolver = NoResolve /\ probe = NoProbe

\* what config.txt can give for ADMIN_ID: 0 (the template, or not a number) or
\* the admin's chat id
ConfigAdmins == {0, ConfigAdmin}

\* Config.load_config(); if Config.ADMIN_ID == 0: sys.exit(1);
\* storage.admin_id = Config.ADMIN_ID; capture_thread.start(); app.run_polling()
main ==
    /\ epc = "main"
    /\ \E ADMIN_ID \in ConfigAdmins :
         IF ADMIN_ID = 0
         THEN /\ epc' = "exit"
              /\ UNCHANGED <<admin_id, bpc>>
         ELSE /\ admin_id' = ADMIN_ID
              /\ bpc' = "sleep"
              /\ epc' = "alert"
    /\ UNCHANGED <<dir, online, clock, crashes, bi, wake, bfile, captured,
                   attempts, location, updates, photo, total, drainVars,
                   everOnline, histVars, resolver, probe>>

NextMain == main \/ Next

SpecMain == InitMain /\ [][NextMain]_vars

\* the sink accepts every call made while the network is reachable
AcceptsAll ==
    online =>
        /\ dpc \in {"send_photo", "send_message", "send_location"} => dpc' # "loop"
        /\ epc \in {"alert_message", "alert_location"} => epc' # "idle"

\* a run of the process that nobody sends commands to and whose sink accepts
\* every call; the capture thread and the event loop keep running, time passes
NextAuto ==
    /\ Environment \/ CaptureThread \/ StartupHook \/ send_pending_files
    /\ AcceptsAll

SpecAuto ==
    /\ Init
    /\ [][NextAuto]_vars
    /\ WF_vars(Tick /\ AcceptsAll)
    /\ WF_vars(CaptureThread /\ AcceptsAll)
    /\ WF_vars((StartupHook \/ send_pending_files) /\ AcceptsAll)

\* the functions called from outside main()
NextCalls ==
    \/ Environment
    \/ CaptureThread
    \/ send_pending_files
    \/ call_send_pending_files
    \/ call_delete_file

SpecCalls == InitCalls /\ [][NextCalls]_vars

(***************************************************************************)
(* Properties of a drain.                                                  *)
(***************************************************************************)
\* the answers of the sink in `calls`
AllOk(cs) == \A i \in 1..Len(cs) : cs[i][2]

\* what the files of the store hold, without the history fields
Stored(d) == [n \in DOMAIN d |-> [st |-> d[n].st, payload |-> d[n].payload]]

\* C1: in every drain a file is removed only after at least one RemoteSink
\* call was made for it in this pass and every such call succeeded; a file for
\* which a call failed is not removed by the pass and stays in the store, and
\* the step of the drain in which the call fails leaves every file as it is.
C1_RemovedOnlyAfterSuccess ==
    /\ [](dpc = "delete" => (calls # << >> /\ AllOk(calls)))
    /\ [](\A a \in pass.failed : a.name \notin pass.removed /\ a.name \in DOMAIN dir)
    /\ [][pass'.failed \ pass.failed # {} => Stored(dir') = Stored(dir)]_vars

\* a pass that removed one file and kept another whose call failed
C1_Witness == dpc = "return" /\ pass.removed # {} /\ pass.failed # {}

\* C2: a location record with coordinates is removed only after the summary
\* and then the coordinates were both accepted in this pass; when the summary
\* was accepted and the coordinates call failed, the pass goes on to the next
\* file and the record stays in the store.
C2_LocationRecordBothCalls ==
    /\ (dpc = "delete" /\ filepath.kind = "json" /\ info.lat # 0 /\ info.lon # 0)
         => calls = << <<"send_message", TRUE>>, <<"send_location", TRUE>> >>
    /\ calls = << <<"send_message", TRUE>>, <<"send_location", FALSE>> >>
         => /\ dpc = "loop"
            /\ filepath \in DOMAIN dir
            /\ filepath \notin pass.removed

\* a record whose coordinates call failed in an earlier pass, about to be
\* removed after its summary (accepted for the second time) and coordinates
C2_Witness ==
    /\ dpc = "delete" /\ filepath.kind = "json"
    /\ filepath \in DOMAIN dir /\ dir[filepath].excused /\ dir[filepath].acks = 2
    /\ calls = << <<"send_message", TRUE>>, <<"send_location", TRUE>> >>

\* C3: while the capture thread appends, a drain never makes an artifact
\* leave the store before the sink had it, and never removes a file that was
\* not in the list it took at its start.
C3_DrainKeepsConcurrentAppends ==
    /\ \A l \in lost : l.by # "drain"
    /\ pass.removed \subseteq pass.snap

\* C4: after a restart, get_pending_files() lists no partially written file
\* (other than the one the running capture thread is writing at this moment).
C4_RestartListsCompleteOnly ==
    crashes > 0 =>
        \A n \in ListSet(get_pending_files(dir)) :
            dir[n].st = "partial" => (bfile # None /\ bfile.name = n)

\* C5: no artifact leaves the store before the sink had it, and the sink gets
\* an artifact a second time only after a kill between the sink's answer and the
\* removal, or after part of a two-call delivery failed.
C5_AtLeastOnceNoDuplicate ==
    /\ lost = {}
    /\ \A n \in DOMAIN dir : dir[n].acks = 2 => dir[n].excused

\* C6: a drain started while the network is unreachable makes no RemoteSink
\* call and removes nothing.
C6_OfflineDrainNoOp == ~pass.online => (~pass.called /\ pass.removed = {})

(***************************************************************************)
(* Properties of the functions called from outside main().                 *)
(***************************************************************************)
CompleteFiles == {n \in DOMAIN dir : dir[n].st = "complete"}

\* C7: while the network has been unreachable since the start, and nobody
\* called delete_file, the store holds exactly the artifacts appended so far:
\* no RemoteSink call succeeded, no drain removed a file, none was lost.
C7_OfflineKeepsEveryCapture ==
    (~everOnline /\ last = None) =>
        /\ ~sendOk
        /\ pass.removed = {}
        /\ lost = {}
        /\ Cardinality(CompleteFiles) = napp

\* every capture of the burst succeeded, then the second drain failed for both
C7_Witness ==
    /\ ~everOnline /\ last = None
    /\ napp >= STARTUP_CAPTURES /\ Cardinality(CompleteFiles) = napp
    /\ updates = 2 /\ dpc = "return" /\ Cardinality(pass.failed) >= STARTUP_CAPTURES

\* C8: a drain started while admin_id is unset returns at once: no RemoteSink
\* call, no file removed.
C8_UnsetAdminNoOp ==
    (dpc \notin {"off", "start"} /\ pass.admin = 0) =>
        /\ dpc = "return"
        /\ ~pass.called
        /\ pass.removed = {}

\* a drain with admin_id unset, the network reachable and a file pending
C8_Witness ==
    /\ dpc = "return" /\ pass.admin = 0 /\ pass.online
    /\ CompleteFiles # {}

\* C9: a drain takes the files oldest first: no file still waiting in its list
\* is older than the one it is sending.
C9_OldestFirst ==
    dpc \in {"send_photo", "send_message"} =>
        \A g \in ListSet(files) : filepath.ts <= g.ts

\* C10: a delete_file call raises nothing, leaves the store as it is when the
\* id is not in it, and changes no other file.
C10_RemoveIdempotent ==
    [][last' # last =>
         /\ epc' # "raised"
         /\ last'.absent => dir' = dir
         /\ \A g \in DOMAIN dir \ {last'.f} : g \in DOMAIN dir' /\ dir'[g] = dir[g]]_vars

\* the second delete_file of an id, now absent, with other files in the store
C10_Witness ==
    /\ last # None /\ last.absent /\ last.second
    /\ dir # << >>

(***************************************************************************)
(* Properties of the captures.                                             *)
(***************************************************************************)
\* C11: the capture thread and handle_capture never write under the same file
\* name, no capture truncates a file the sink has not had, and the delete of
\* handle_capture removes no file the sink has not had.
C11_UniqueIds ==
    /\ (bfile # None /\ photo # None) => bfile.name # photo.name
    /\ \A l \in lost : l.by \notin {"burst", "button"}

\* C12: in a run in which the network ends up reachable for good (the sink
\* accepting every call) and the capture thread gets to its end, every file that
\* was written ends up delivered and removed: the store ends up empty for good.
C12_EventuallyDelivered ==
    (<>[]online /\ <>(bpc = "done")) => <>[](dir = << >>)

(***************************************************************************)
(* Properties of get_location().                                           *)
(***************************************************************************)
\* the validation the design asks of every source
Valid(lat, lon) == abs(lat) <= 90 /\ abs(lon) <= 180 /\ ~(lat = 0 /\ lon = 0)

\* the coordinates of a result are those of candidate c
SameCoords(r, c) == r # None /\ r.lat = c.lat /\ r.lon = c.lon

\* C13: whichever source reports a candidate (lat, lon), it becomes the fix if
\* and only if |lat| <= 90, |lon| <= 180 and lat, lon are not both zero.
C13_SameValidation ==
    resolver.pc = "done" =>
        /\ resolver.win.kind = "coords" =>
              (resolver.win_loc # None <=> Valid(resolver.win.lat, resolver.win.lon))
        /\ (resolver.win_loc = None /\ resolver.wifi.kind = "coords") =>
              (resolver.wifi_loc # None <=> Valid(resolver.wifi.lat, resolver.wifi.lon))
        /\ (resolver.win_loc = None /\ resolver.wifi_loc = None
                /\ resolver.ip.kind = "coords") =>
              (SameCoords(resolver.result, resolver.ip)
                  <=> Valid(resolver.ip.lat, resolver.ip.lon))

\* C14: no complete location record in the store holds the coordinates (0, 0).
C14_NoZeroZeroStored ==
    \A n \in DOMAIN dir :
        (n.kind = "json" /\ dir[n].st = "complete") =>
            ~(dir[n].payload.lat = 0 /\ dir[n].payload.lon = 0)

\* C15: get_location asks the sensor first, the Wi-Fi source next and only when
\* the sensor gave no fix, and the IP lookup last, once, in every call.
C15_StrategyOrder ==
    /\ resolver.pc = "wifi" => (resolver.trace = <<"windows">> /\ resolver.win_loc = None)
    /\ resolver.pc = "ip" =>
          resolver.trace = IF resolver.win_loc # None THEN <<"windows">>
                           ELSE <<"windows", "wifi">>
    /\ resolver.pc = "done" =>
          resolver.trace = IF resolver.win_loc # None THEN <<"windows", "ip">>
                           ELSE <<"windows", "wifi", "ip">>

\* a call in which the sensor gave a fix: the Wi-Fi source was not asked, the
\* IP lookup was
C15_Witness ==
    /\ resolver.pc = "done" /\ resolver.win_loc # None
    /\ Len(resolver.trace) = 2 /\ resolver.wifi.kind = "coords"

\* C16: the result has the source and coordinates of the first of sensor,
\* Wi-Fi, IP lookup that gave coordinates, and carries the IP metadata whenever
\* the IP lookup succeeded.
C16_HighestPriorityFix ==
    resolver.pc = "done" =>
        /\ resolver.win_loc # None =>
              (SameCoords(resolver.result, resolver.win_loc)
                  /\ resolver.result.source = "GPS")
        /\ (resolver.win_loc = None /\ resolver.wifi_loc # None) =>
              (SameCoords(resolver.result, resolver.wifi_loc)
                  /\ resolver.result.source = "WiFi")
        /\ (resolver.win_loc = None /\ resolver.wifi_loc = None
                /\ resolver.ip_data # None) =>
              (SameCoords(resolver.result, resolver.ip_data)
                  /\ resolver.result.source = "IP")
        /\ resolver.ip_data # None => (resolver.result # None /\ resolver.result.meta)

\* a sensor fix together with a successful IP lookup that has other coordinates
C16_Witness ==
    /\ resolver.pc = "done" /\ resolver.win_loc # None
    /\ resolver.ip.kind = "coords" /\ resolver.ip.lat # resolver.win_loc.lat
    /\ resolver.result.meta /\ resolver.result.source = "GPS"

\* C17: no exception leaves get_location; it returns None exactly when no
\* source gave coordinates or metadata, and the precise fix, without
\* metadata, when only the IP lookup failed.
C17_NeverRaises ==
    /\ ~resolver.raised /\ resolver.pc # "raised"
    /\ resolver.pc = "done" =>
          /\ resolver.result = None <=>
                (resolver.win_loc = None /\ resolver.wifi_loc = None
                    /\ resolver.ip_data = None)
          /\ (resolver.wifi_loc # None /\ resolver.ip_data = None) =>
                (SameCoords(resolver.result, resolver.wifi_loc) /\ ~resolver.result.meta)
          /\ (resolver.win_loc # None /\ resolver.ip_data = None) =>
                (SameCoords(resolver.result, resolver.win_loc) /\ ~resolver.result.meta)

\* every source raised, and get_location returned None
C17_Witness ==
    /\ resolver.pc = "done" /\ resolver.result = None
    /\ resolver.win.kind = "raise" /\ resolver.wifi.kind = "raise"
    /\ resolver.ip.kind = "raise"

(***************************************************************************)
(* Properties of the startup burst.                                        *)
(***************************************************************************)
\* C18: the burst makes exactly STARTUP_CAPTURES attempts, whatever their
\* outcomes, and every attempt that captured a frame leaves its photo in the
\* store: the photos the burst persisted are as many as its successful attempts.
C18_BurstCounts ==
    /\ [](bpc \in {"location", "dump", "done"} => bi = STARTUP_CAPTURES)
    /\ [][(bpc = "imwrite" /\ bpc' = "sleep") =>
            /\ bfile.name \in DOMAIN dir'
            /\ dir'[bfile.name].st = "complete"
            /\ dir'[bfile.name].payload = bfile.payload]_vars

\* the location files in a directory
LocationFiles(d) == {n \in DOMAIN d : n.kind = "json"}

\* C19: the burst calls get_location once, after its last photo attempt and
\* never again; if the call returned a result the burst writes exactly one new
\* location file, which holds that result when the write ends, and if it
\* returned None the burst writes none.
C19_OneLocationRecord ==
    /\ [](bpc = "location" => (bi = STARTUP_CAPTURES /\ bfile = None))
    /\ [][(bpc \in {"dump", "done"}) => (bpc' \in {"dump", "done"})]_vars
    /\ [][(bpc = "location" /\ bpc' # "location") =>
            /\ bpc' \in {"dump", "done"}
            /\ bpc' = "done" => LocationFiles(dir') = LocationFiles(dir)
            /\ bpc' = "dump" =>
                  /\ bfile'.payload # None
                  /\ LocationFiles(dir') = LocationFiles(dir) \cup {bfile'.name}
                  /\ bfile'.name \notin LocationFiles(dir)]_vars
    /\ [][(bpc = "dump" /\ bpc' = "done") =>
            /\ bfile.name \in DOMAIN dir'
            /\ dir'[bfile.name].st = "complete"
            /\ dir'[bfile.name].payload = bfile.payload]_vars

\* the burst is over and its location file is in the store, whole
C19_Witness ==
    /\ bpc = "done"
    /\ \E n \in LocationFiles(dir) : dir[n].st = "complete"

\* the capture thread waits only for the end of its time.sleep
BurstSleeping == bpc = "capture" /\ clock < wake

\* the burst can take its next step whatever the connectivity, the startup
\* wait and the drain are doing
C20_NeverBlocked == bpc # "done" => (ENABLED CaptureThread \/ BurstSleeping)

\* C20: the burst is never blocked by connectivity, by the startup wait or by
\* a drain, and an attempt that captured a frame while a drain is in progress
\* leaves its photo in the store.
C20_BurstIndependent ==
    /\ []C20_NeverBlocked
    /\ [][(bpc = "imwrite" /\ bpc' = "sleep" /\ dpc # "off") =>
            /\ bfile.name \in DOMAIN dir'
            /\ dir'[bfile.name].st = "complete"]_vars

(***************************************************************************)
(* Properties of the startup hook.                                         *)
(***************************************************************************)
\* C21: the startup wait makes at most MaxWaitAttempts retries; until the
\* probe after the wait has answered, no RemoteSink call was made and no file
\* was removed; the hook goes on to the alert only when that probe answered
\* online, and when it answered offline the hook returns with every file
\* still in the store and no call made.
C21_BoundedStartupWait ==
    /\ [](attempts <= MaxWaitAttempts)
    /\ [](epc \in {"alert", "gate"} =>
            (~sendOk /\ calls = << >> /\ dpc = "off" /\ pass = NoPass))
    /\ [][attempts' # attempts =>
            \/ attempts' = attempts + 1 /\ epc = "alert" /\ ~online
            \/ attempts' = 0 /\ epc = "gate"]_vars
    /\ [][(epc = "gate" /\ epc' # "gate") =>
            IF online THEN epc' = "alert_message"
            ELSE epc' = "idle" /\ dir' = dir /\ dpc' = "off"
                 /\ sendOk' = sendOk /\ calls' = calls]_vars

\* the wait used up all its retries offline, and the hook returned
C21_Witness ==
    /\ epc = "idle" /\ attempts = 0 /\ ~everOnline /\ ~sendOk
    /\ \E n \in DOMAIN dir : dir[n].st = "complete"

\* C22: check_internet never raises, returns FALSE for every way the probe
\* request can fail, and returns TRUE only when the request returned a response.
C22_ProbeTotal ==
    /\ ~probe.raised /\ epc # "raised"
    /\ probe.reply # "none" => (probe.value <=> probe.reply = "response")
    /\ probe.count <= attempts + 2

\* a probe interrupted in the middle of the wait answered FALSE
C22_Witness ==
    /\ probe.reply = "KeyboardInterrupt" /\ ~probe.value
    /\ epc = "alert" /\ attempts = 2

(***************************************************************************)
(* Properties of the operator's drain and of the admin.                    *)
(***************************************************************************)
\* C23: when the drain started by the 'pending' button returns, the number
\* that handle_pending reports is the number of files this drain delivered
\* and removed.
C23_ReportedCount ==
    [][(dret = "handle_pending" /\ dpc = "return" /\ dpc' = "off") =>
            total = Cardinality(pass.removed)]_vars

\* C24: once the admin is set, no step of the run changes it to another chat.
C24_AdminSetOnce ==
    [][admin_id # 0 => admin_id' = admin_id]_vars

\* C25: every photo, summary and coordinates message a drain sends goes to the
\* admin of the configuration.
C25_OnlyToAdmin ==
    dpc \in {"send_photo", "send_message", "send_location"} => admin_id = ConfigAdmin

\* C26: the process never terminates by itself: not when the admin is unset,
\* and not after a failed delivery, capture or removal.
C26_NeverTerminates == epc # "exit"

(***************************************************************************)
(* Properties of one drain.                                                *)
(***************************************************************************)
\* the statements of send_pending_files that call the sink
SinkCalls == {"send_photo", "send_message", "send_location"}

\* the files of the snapshot the running drain has taken from its list
Attempted == pass.snap \ ListSet(files)

\* C27: a drain works through the list it took when it began: the list only
\* shrinks, a delivery starts only by taking the next file off the list, each
\* sink call is made once and control leaves it whatever it answered, and the
\* drain can always take its next step until it returns.
C27_DrainAtMostOnce ==
    /\ [](dpc \notin {"off", "start"} =>
            /\ ListSet(files) \subseteq pass.snap
            /\ filepath # None => filepath \in Attempted
            /\ Len(calls) <= 2)
    /\ [](dpc # "off" => ENABLED send_pending_files)
    /\ [][dpc \notin {"off", "start"} => ListSet(files') \subseteq ListSet(files)]_vars
    /\ [][(dpc # dpc' /\ dpc' \in {"send_photo", "send_message"}) =>
            (dpc = "loop" /\ filepath' \in ListSet(files) /\ filepath' \notin ListSet(files'))]_vars
    /\ [][(dpc \in SinkCalls /\ calls' # calls) =>
            (dpc' # dpc /\ ListSet(files') = ListSet(files))]_vars

\* a drain over two files has come to its end although a delivery failed
C27_Witness ==
    /\ dpc = "return" /\ Cardinality(pass.snap) = 2
    /\ pass.failed # {} /\ Attempted = pass.snap

\* C28: get_location never hangs: a call in progress can always take its next
\* step, it asks at most three sources, and a source that gets no answer gives
\* None when its timeout expires, after which the later sources are asked as
\* they would be otherwise.
C28_ResolveTerminates ==
    /\ resolver.pc # "hung"
    /\ resolver.pc \in {"start", "wifi", "ip"} => ENABLED NextResolve
    /\ Len(resolver.trace) <= 3
    /\ (resolver.pc \in {"wifi", "ip", "done"} /\ resolver.win.kind = "stall") =>
          (resolver.win_loc = None /\ (resolver.pc # "wifi" => resolver.trace[2] = "wifi"))
    /\ (resolver.pc \in {"ip", "done"} /\ resolver.win_loc = None
            /\ resolver.wifi.kind \in {"stall_scan", "stall"}) =>
          resolver.wifi_loc = None
    /\ resolver.pc = "done" =>
          /\ resolver.trace[Len(resolver.trace)] = "ip"
          /\ resolver.ip.kind = "stall" => resolver.ip_data = None

\* every source asked got no answer, and the call returned None
C28_Witness ==
    /\ resolver.pc = "done" /\ resolver.result = None
    /\ resolver.win.kind = "stall" /\ resolver.wifi.kind = "stall_scan"
    /\ resolver.ip.kind = "stall"

(***************************************************************************)
(* Properties of a run as a whole.                                         *)
(***************************************************************************)
\* C29: a run starts the capture thread once, in main(); the thread makes at
\* most STARTUP_CAPTURES attempts and, once it is done, stays done; after that
\* a file name appears in the store only through a capture the operator asked
\* for.
C29_OneBurstPerRun ==
    /\ [](bi <= STARTUP_CAPTURES)
    /\ [][bpc # "off" => bpc' # "off"]_vars
    /\ [][(bpc = "off" /\ bpc' # "off") => (epc = "main" /\ bpc' = "sleep" /\ bi' = 0)]_vars
    /\ [][bpc = "done" => bpc' = "done"]_vars
    /\ [][(bpc \in {"location", "dump"}) => (bpc' \in {"location", "dump", "done"})]_vars
    /\ [][bi' >= bi]_vars
    /\ [][(bpc = "done" /\ ~(DOMAIN dir' \subseteq DOMAIN dir)) =>
            (epc = "capture" /\ epc' = "imwrite")]_vars

\* the burst is over and a capture the operator asked for is being written
C29_Witness ==
    /\ bpc = "done" /\ epc = "imwrite"
    /\ photo.name \in DOMAIN dir /\ dir[photo.name].payload = Frame("button")
    /\ captured = 0

\* C30: drains never overlap, and each one takes its list from the store when
\* it begins: the list is exactly the files that are there, so a drain never
\* meets a file an earlier drain removed, and a drain that finds the store
\* empty makes no call and removes nothing.
C30_DrainRecomputes ==
    /\ [][(dpc' = "start" /\ dpc # "start") => (dpc = "off" /\ epc # "drain")]_vars
    /\ [][(dpc = "start" /\ dpc' # "start") =>
            /\ ListSet(files') = DOMAIN dir
            /\ pass'.snap = DOMAIN dir
            /\ pass'.removed = {} /\ pass'.failed = {}]_vars
    /\ [](dpc \in SinkCalls \cup {"delete"} => pass.snap # {})
    /\ [][(epc = "drain" /\ DOMAIN dir \ DOMAIN dir' # {}) =>
            /\ dpc = "delete"
            /\ DOMAIN dir \ DOMAIN dir' = {filepath}
            /\ filepath \in pass.snap]_vars

\* the drain the operator asked for is at a file, after an earlier drain has
\* delivered and removed another
C30_Witness ==
    /\ dret = "handle_pending" /\ dpc = "send_photo"
    /\ napp > Cardinality(DOMAIN dir) /\ lost = {}

(***************************************************************************)
(* Properties of the delivery of single artifacts.                         *)
(***************************************************************************)
\* C31: after the summary of a location record was accepted, the drain sends
\* the coordinates message if and only if the record holds a fix (in range,
\* not both zero), and otherwise goes on to remove the record.
C31_CoordsIffFix ==
    [][(dpc = "send_message" /\ dpc' \in {"send_location", "delete"}) =>
            (dpc' = "send_location" <=> Valid(info.lat, info.lon))]_vars

\* the answer of the sink call a step has just made
Refused == calls' # calls /\ ~calls'[Len(calls')][2]

\* a failed call sends the drain on to the next file of its list, and a drain
\* returns only when it has been at every file of the list
C32_PassContinues ==
    /\ [][(dpc \in SinkCalls /\ Refused) => (dpc' = "loop" /\ files' = files)]_vars
    /\ [](dpc = "return" => Attempted = pass.snap)

\* C32: a failed delivery does not end the pass, every later file of the list
\* is still attempted, and every file whose delivery succeeded is removed.
C32_FailureDoesNotStopPass ==
    /\ C32_PassContinues
    /\ [][(dpc = "delete" /\ dpc' = "loop") => filepath \notin DOMAIN dir']_vars

\* C33: the startup hook starts its drain only from the alert: after the alert
\* message when the location has no two non-zero coordinates, after the
\* coordinates message otherwise, and only when every call made was accepted;
\* when a call of the alert fails the hook ends without a drain and the step
\* leaves the store as it is.
C33_DrainAfterAlert ==
    /\ [](dret = "send_startup_alert" => sendOk)
    /\ [](epc = "alert_location" => (sendOk /\ location # None /\ HasCoords(location)))
    /\ [][(dret' = "send_startup_alert" /\ dret # dret') =>
            /\ dpc = "off" /\ dpc' = "start"
            /\ \/ epc = "alert_location"
               \/ epc = "alert_message" /\ (location = None \/ ~HasCoords(location))]_vars
    /\ [][(epc \in {"alert_message", "alert_location"} /\ epc' = "idle") =>
            (dir' = dir /\ dpc' = "off" /\ dret' = "none")]_vars

\* the coordinates message of the alert failed: the hook has ended, no drain
\* was started and a photo stays in the store
C33_Witness ==
    /\ epc = "idle" /\ dpc = "off" /\ updates = 0 /\ sendOk
    /\ \E n \in DOMAIN dir : dir[n].st = "complete" /\ dir[n].acks = 0
    /\ lost = {}

\* a location file that json.load cannot parse
Unparseable(d, n) == n \in DOMAIN d /\ n.kind = "json" /\ d[n].st # "complete"

\* a location file whose write no thread will end: the run that opened it
\* was killed
Abandoned(d, b, n) == Unparseable(d, n) /\ (b = None \/ b.name # n)

\* the process, killed and restarted at most MaxCrashes times, keeps running:
\* a step that can be taken is taken
SpecRestart == SpecCrash /\ WF_vars(NextCrash)

\* C34 as the specification states it: once a location file that cannot be
\* parsed exists, the store is never empty again
C34_NeverEmptyAgain ==
    []((\E n \in DOMAIN dir : Unparseable(dir, n)) => [](DOMAIN dir # {}))

\* C34: a drain that comes to a location file it cannot parse makes no sink
\* call for it, leaves the store as it is and goes on with the next file of
\* its pass; no step removes a location file that cannot be parsed; and a
\* location file left unparseable by a killed run stays so for ever, so the
\* store is never empty again.  (A file that is unparseable only while the
\* capture thread is writing it is delivered and removed by a later drain.)
C34_AbandonedStaysForever ==
    /\ [][(epc = "drain" /\ dpc = "loop" /\ files' # files /\ Unparseable(dir, filepath')) =>
            (dpc' = "loop" /\ dir' = dir /\ calls' = << >> /\ sendOk' = sendOk)]_vars
    /\ [][\A n \in DOMAIN dir \ DOMAIN dir' : ~Unparseable(dir, n)]_vars
    /\ [][\A n \in DOMAIN dir : Abandoned(dir, bfile, n) => Abandoned(dir', bfile', n)]_vars

\* a drain of the restarted process has passed over the file a killed run
\* left unparseable and delivered a photo of the same pass
C34_Witness ==
    /\ crashes = 1 /\ epc = "drain" /\ dpc = "return"
    /\ \E n \in pass.snap : Abandoned(dir, bfile, n)
    /\ \E n \in pass.snap : n.kind = "jpg" /\ n \notin DOMAIN dir

\* handle_capture's own photo: a failed capture() leaves the store as it is,
\* a failed reply_photo leaves the photo in the store, and the handler removes
\* the file that still holds its own frame only after the sink took it
C35_OwnPhoto ==
    /\ [][(epc = "capture" /\ epc' = "idle") => dir' = dir]_vars
    /\ [][(epc = "reply_photo" /\ epc' = "idle") =>
            (photo.name \in DOMAIN dir /\ dir' = dir)]_vars
    /\ [][(epc = "capture_delete" /\ photo.name \in DOMAIN dir
             /\ photo.name \notin DOMAIN dir'
             /\ dir[photo.name].payload = photo.payload) =>
            dir[photo.name].acks > 0]_vars

\* C35: handle_capture sends the photo it took and then removes it, or leaves
\* it in the store when the send fails; the file it removes holds the frame it
\* captured and the sink has taken that frame; a failed capture leaves the
\* store as it is.
C35_SentBeforeRemoved ==
    /\ C35_OwnPhoto
    /\ [][(epc = "capture_delete" /\ photo.name \in DOMAIN dir
             /\ photo.name \notin DOMAIN dir') =>
            (dir[photo.name].acks > 0 /\ dir[photo.name].payload = photo.payload)]_vars

=============================================================================
